---- MODULE Spec2Model ----
(***************************************************************************)
(* Model of fetch_and_publish.py: a batch job that fetches the configured  *)
(* feeds, classifies each entry as new or not against a persisted          *)
(* seen-state, writes one output document per feed and saves the           *)
(* seen-state.                                                             *)
(*                                                                         *)
(* Time is counted in ticks of 24 hours, so DELTA is one tick.  Text is    *)
(* modelled by TLA+ strings; "" is the empty or missing text.  A date      *)
(* text is a number of ticks followed by a zone suffix: "" (naive), "Z"    *)
(* or "+00:00".                                                            *)
(***************************************************************************)
EXTENDS Integers, Sequences, FiniteSets, TLC

\* ------------------------------------------------------------------ bounds
\* Largest reading of the wall clock.
MaxNow == 3
\* Longest list of entries a fetched feed holds.
MaxEntries == 2

\* ------------------------------------------------------------ configuration
\* FEEDS.items() iterates in insertion order.
FEEDS == <<"bd", "master">>
FeedKeys == {"bd", "master"}
\* timedelta(hours=24), in ticks.
DELTA == 1

\* ------------------------------------------------------------- date values
NoTime == -1
BadTime == -2
Zones == {"", "Z", "+00:00"}
ClockRange == 0..MaxNow

\* datetime.isoformat() of a timezone-aware UTC datetime.
IsoTable == [t \in ClockRange |-> ToString(t) \o "+00:00"]
isoformat(t) == IsoTable[t]

\* dateutil's parser.parse: the datetime read from a text, or a failure
\* (an exception in the code).  naive: the text carries no zone.
\* The date texts: every tick count with every zone suffix.
DateText(t, z) == ToString(t) \o z
DateTexts == {DateText(h[1], h[2]) : h \in ClockRange \X Zones}
ReadDate(s) ==
    LET h == CHOOSE x \in ClockRange \X Zones : s = DateText(x[1], x[2])
    IN  [ok |-> TRUE, naive |-> (h[2] = ""), t |-> h[1]]
ParseTable == [s \in DateTexts |-> ReadDate(s)]
ParseError == [ok |-> FALSE, naive |-> FALSE, t |-> NoTime]
dateparser_parse_rejects_offset(s) ==
    IF s \in DateTexts /\ ~ParseTable[s].naive /\ s # DateText(ParseTable[s].t, "Z")
    THEN ParseError
    ELSE IF s \in DateTexts THEN ParseTable[s] ELSE ParseError
dateparser_parse(s) == IF s \in DateTexts THEN ParseTable[s] ELSE ParseError

\* A naive datetime is taken as UTC (replace(tzinfo=utc)); an aware one is
\* converted (astimezone(utc)).  Every zone of the model has offset zero.
AsUTC(dt) == dt.t

\* ------------------------------------------------------------- raw entries
\* One parsed feed entry: the fields the program reads.  *_parsed are the
\* structured times of the feed parser (a tick count, NoTime when missing,
\* BadTime for a tuple datetime() rejects).
NoEntry ==
    [id |-> "", guid |-> "", link |-> "", title |-> "",
     published |-> "", updated |-> "", pubDate |-> "", date |-> "",
     published_parsed |-> NoTime, updated_parsed |-> NoTime]

parse_entry_id_link_before_guid(entry) ==
    IF entry.id # "" THEN entry.id
    ELSE IF entry.link # "" THEN entry.link
    ELSE IF entry.guid # "" THEN entry.guid
    ELSE LET title == entry.title
             pub == IF entry.published # "" THEN entry.published ELSE entry.updated
         IN  title \o "||" \o pub
parse_entry_id(entry) ==
    IF entry.id # "" THEN entry.id
    ELSE IF entry.guid # "" THEN entry.guid
    ELSE IF entry.link # "" THEN entry.link
    ELSE LET title == entry.title
             pub == IF entry.published # "" THEN entry.published ELSE entry.updated
         IN  title \o "||" \o pub

\* The optional datetime parse_entry_date returns: some = FALSE is None.
None == [some |-> FALSE, t |-> NoTime]
Some(t) == [some |-> TRUE, t |-> t]

\* First loop: the structured fields, in order.
StructuredDate(entry) ==
    LET vs == <<entry.published_parsed, entry.updated_parsed>>
        good == {i \in 1..2 : vs[i] # NoTime /\ vs[i] # BadTime}
    IN  IF good = {} THEN None
        ELSE Some(vs[CHOOSE i \in good : \A j \in good : i <= j])

\* Second loop: the text fields, in order; a text that fails to parse is
\* skipped.
StringDate(entry) ==
    LET vs == <<entry.published, entry.updated, entry.pubDate, entry.date>>
        good == {i \in 1..4 : vs[i] # "" /\ dateparser_parse(vs[i]).ok}
    IN  IF good = {} THEN None
        ELSE Some(AsUTC(dateparser_parse(vs[CHOOSE i \in good : \A j \in good : i <= j])))

parse_entry_date(entry) ==
    IF StructuredDate(entry).some THEN StructuredDate(entry) ELSE StringDate(entry)

\* ------------------------------------------------------ seen-state file
\* The content of a seen-state file: absent, present but unreadable, text
\* that is no JSON, a JSON list, or a JSON object (map) from identity to
\* stamp text.
EmptyMap == [x \in {} |-> ""]
Absent == [kind |-> "absent", map |-> EmptyMap]
Unreadable == [kind |-> "unreadable", map |-> EmptyMap]
Corrupt == [kind |-> "corrupt", map |-> EmptyMap]
JsonList == [kind |-> "list", map |-> EmptyMap]
JsonMap(m) == [kind |-> "map", map |-> m]

\* The value load_last_seen returns: {} when the file is absent or open /
\* json.load raise, otherwise whatever json.load returned.
load_last_seen_keeps_corrupt(file) ==
    IF file.kind \in {"absent", "unreadable"} THEN JsonMap(EmptyMap) ELSE file
load_last_seen(file) ==
    IF file.kind \in {"absent", "unreadable", "corrupt"} THEN JsonMap(EmptyMap)
    ELSE file

\* dict(last_seen) raises for a JSON value that is no mapping.
DictRaises(loaded) == loaded.kind # "map"

\* ---------------------------------------------------------- classification
cutoff(now) == now - DELTA

\* Lines 144-168: the verdict of one entry against the loaded mapping.
IsNew_strict_cutoff(entry, seen, now) ==
    LET eid == parse_entry_id(entry)
        edate == parse_entry_date(entry)
    IN  IF eid \notin DOMAIN seen
        THEN IF edate.some THEN edate.t > cutoff(now) ELSE TRUE
        ELSE LET stored_dt == dateparser_parse(seen[eid])
             IN  IF ~stored_dt.ok THEN FALSE
                 ELSE /\ edate.some
                      /\ edate.t > AsUTC(stored_dt)
                      /\ edate.t > cutoff(now)
IsNew_ignores_stored(entry, seen, now) ==
    LET eid == parse_entry_id(entry)
        edate == parse_entry_date(entry)
    IN  IF eid \notin DOMAIN seen
        THEN IF edate.some THEN edate.t >= cutoff(now) ELSE TRUE
        ELSE LET stored_dt == dateparser_parse(seen[eid])
             IN  IF ~stored_dt.ok THEN FALSE
                 ELSE /\ edate.some
                      /\ edate.t >= AsUTC(stored_dt)
                      /\ edate.t >= cutoff(now)
IsNew(entry, seen, now) ==
    LET eid == parse_entry_id(entry)
        edate == parse_entry_date(entry)
    IN  IF eid \notin DOMAIN seen
        THEN IF edate.some THEN edate.t >= cutoff(now) ELSE TRUE
        ELSE LET stored_dt == dateparser_parse(seen[eid])
             IN  IF ~stored_dt.ok THEN FALSE
                 ELSE /\ edate.some
                      /\ edate.t > AsUTC(stored_dt)
                      /\ edate.t >= cutoff(now)

\* Lines 171-177: the item appended for a new entry.
Item(entry, now) ==
    LET edate == parse_entry_date(entry)
    IN  [id |-> parse_entry_id(entry),
         published |-> IF edate.some THEN edate.t ELSE now]

\* Lines 181-186: the stamp stored for an entry, whatever its verdict.
Stamp_now_only(entry, now) == isoformat(now)
Stamp(entry, now) ==
    LET edate == parse_entry_date(entry)
    IN  IF edate.some THEN isoformat(edate.t)
        ELSE IF entry.published # "" THEN entry.published
        ELSE IF entry.updated # "" THEN entry.updated
        ELSE isoformat(now)

Put(m, k, v) == [x \in DOMAIN m \cup {k} |-> IF x = k THEN v ELSE m[x]]

\* Lines 137-187: the loop over the entries.  The verdict reads the loaded
\* mapping `seen`; the stamps go to the copy acc.updated.
RECURSIVE Loop(_, _, _, _, _)
Loop(es, i, seen, now, acc) ==
    IF i > Len(es) THEN acc
    ELSE LET e == es[i]
             hit == IsNew(e, seen, now)
         IN  Loop(es, i + 1, seen, now,
                  [new_items |-> IF hit THEN Append(acc.new_items, Item(e, now))
                                 ELSE acc.new_items,
                   verdicts |-> Append(acc.verdicts, hit),
                   updated |-> Put(acc.updated, parse_entry_id(e), Stamp(e, now))])

RECURSIVE Loop_reads_updates(_, _, _, _, _)
Loop_reads_updates(es, i, seen, now, acc) ==
    IF i > Len(es) THEN acc
    ELSE LET e == es[i]
             hit == IsNew(e, acc.updated, now)
         IN  Loop_reads_updates(es, i + 1, seen, now,
                  [new_items |-> IF hit THEN Append(acc.new_items, Item(e, now))
                                 ELSE acc.new_items,
                   verdicts |-> Append(acc.verdicts, hit),
                   updated |-> Put(acc.updated, parse_entry_id(e), Stamp(e, now))])
Classified_reads_updates(es, seen, now) ==
    Loop_reads_updates(es, 1, seen, now,
                       [new_items |-> <<>>, verdicts |-> <<>>, updated |-> seen])
Classified_forgets(es, seen, now) ==
    Loop(es, 1, seen, now, [new_items |-> <<>>, verdicts |-> <<>>, updated |-> EmptyMap])
Classified(es, seen, now) ==
    Loop(es, 1, seen, now, [new_items |-> <<>>, verdicts |-> <<>>, updated |-> seen])

\* ------------------------------------------------------------ output file
\* An output document: absent, a partly written file, or a document with
\* its items (guid and pubDate of each, in order).
NoDoc == [kind |-> "absent", items |-> <<>>]
Partial == [kind |-> "partial", items |-> <<>>]
DocItem(it) == [guid |-> it.id, pubDate |-> isoformat(it.published)]
build_rss_xml_newest_first(items) ==
    [kind |-> "doc",
     items |-> [i \in 1..Len(items) |-> DocItem(items[Len(items) + 1 - i])]]
build_rss_xml(items) ==
    [kind |-> "doc", items |-> [i \in 1..Len(items) |-> DocItem(items[i])]]

\* ------------------------------------------------------------ environment
Times == 0..(MaxNow - 1)

\* Article "a" carries an id and structured times; article "b" carries only
\* a link and text dates.  Each comes undated, with a date text no parser
\* reads, or dated at any tick.
EntriesA ==
    {[NoEntry EXCEPT !.id = "a", !.title = "A"],
     [NoEntry EXCEPT !.id = "a", !.title = "A", !.published = "soon"]}
    \cup {[NoEntry EXCEPT !.id = "a", !.title = "A", !.published = ToString(t),
                          !.published_parsed = t] : t \in Times}
EntriesB ==
    {[NoEntry EXCEPT !.link = "b"],
     [NoEntry EXCEPT !.link = "b", !.updated = "later"]}
    \cup {[NoEntry EXCEPT !.link = "b", !.updated = ToString(t) \o "Z"] : t \in Times}
Entries == EntriesA \cup EntriesB

RECURSIVE SeqsUpTo(_, _)
SeqsUpTo(S, n) ==
    IF n = 0 THEN {<<>>}
    ELSE LET shorter == SeqsUpTo(S, n - 1)
         IN  shorter \cup {Append(q, x) : q \in {r \in shorter : Len(r) = n - 1}, x \in S}

\* The entries that come together in longer lists: article "a" undated, at
\* two ticks and with an unreadable date text, article "b" undated.
CoreEntries ==
    {[NoEntry EXCEPT !.id = "a", !.title = "A"],
     [NoEntry EXCEPT !.id = "a", !.title = "A", !.published = "1", !.published_parsed = 1],
     [NoEntry EXCEPT !.id = "a", !.title = "A", !.published = "2", !.published_parsed = 2],
     [NoEntry EXCEPT !.id = "a", !.title = "A", !.published = "soon"],
     [NoEntry EXCEPT !.link = "b"]}

\* The entry lists the feed parser can hand over: every list of at most
\* one entry, and the lists of up to MaxEntries core entries.
FeedContents == SeqsUpTo(Entries, 1) \cup SeqsUpTo(CoreEntries, MaxEntries)
\* The entry lists of a feed that only ever carries article "a" undated.
PlainContents == SeqsUpTo({[NoEntry EXCEPT !.id = "a", !.title = "A"]}, 1)

\* Entries with every combination of the fields an identity is made of,
\* each field empty or set.
IdEntries ==
    {[NoEntry EXCEPT !.id = f[1], !.guid = f[2], !.link = f[3], !.title = f[4],
                     !.published = f[5], !.updated = f[6]] :
        f \in {"", "i"} \X {"", "g"} \X {"", "l"} \X {"", "T"} \X {"", "p"} \X {"", "u"}}

HostDown == [mode |-> "down", feed |-> <<>>]
AnyFeed == [mode |-> "any", feed |-> <<>>]
Fixed(f) == [mode |-> "fixed", feed |-> f]
\* The entry lists a fetch of the URL can bring.
Served(u) ==
    IF u.mode = "down" THEN {} ELSE IF u.mode = "any" THEN FeedContents ELSE {u.feed}

\* The seen-state files a first run can find.
InitSeen == {Absent, Unreadable, Corrupt, JsonList}

\* ------------------------------------------------------------------- state
VARIABLES
    clock,              \* the wall clock (datetime.now)
    upstream,           \* per feed: what its URL serves: "down" (nothing),
                        \* "any" (any entry list, anew at each fetch) or
                        \* "fixed" (always the entry list `feed`)
    seenFile,           \* per feed: content of LAST_SEEN_FILES[k]
    outFile,            \* per feed: content of OUTFILES[k]
    pc,                 \* "main" (loop head, line 209), "classified" (line 189),
                        \* "written" (line 203), "exit"
    idx,                \* position of main's loop in FEEDS
    any_ok,             \* main's any_ok
    ret,                \* per feed: outcome of process_feed in this run
    exitcode,           \* exit status of the process, -1 while it runs
    entries, now, last_seen, verdicts, new_items, updated_last_seen
                        \* locals of the process_feed call in progress

vars == <<clock, upstream, seenFile, outFile, pc, idx, any_ok, ret, exitcode,
          entries, now, last_seen, verdicts, new_items, updated_last_seen>>

env == <<clock, upstream>>
files == <<seenFile, outFile>>
locals == <<entries, now, last_seen, verdicts, new_items, updated_last_seen>>

feed_key == FEEDS[idx]

NoLocals ==
    /\ entries' = <<>>
    /\ now' = 0
    /\ last_seen' = EmptyMap
    /\ verdicts' = <<>>
    /\ new_items' = <<>>
    /\ updated_last_seen' = EmptyMap

InitProgram ==
    /\ clock = DELTA
    /\ outFile = [k \in FeedKeys |-> NoDoc]
    /\ pc = "main"
    /\ idx = 1
    /\ any_ok = FALSE
    /\ ret = [k \in FeedKeys |-> "none"]
    /\ exitcode = -1
    /\ entries = <<>>
    /\ now = 0
    /\ last_seen = EmptyMap
    /\ verdicts = <<>>
    /\ new_items = <<>>
    /\ updated_last_seen = EmptyMap

\* The first feed's URL may serve any entry list at each fetch; the second
\* feed's host is down.
Init ==
    /\ InitProgram
    /\ upstream = [k \in FeedKeys |-> IF k = "bd" THEN AnyFeed ELSE HostDown]
    /\ seenFile \in [FeedKeys -> InitSeen]
    /\ seenFile["master"] = Absent

\* Each URL serves one unchanging entry list.
InitFixed ==
    /\ InitProgram
    /\ \E f \in FeedContents, g \in PlainContents :
          upstream = [k \in FeedKeys |-> IF k = "bd" THEN Fixed(f) ELSE Fixed(g)]
    /\ seenFile \in [FeedKeys -> {Absent, JsonList}]
    /\ seenFile["master"] = Absent

\* The first feed's URL serves one entry, with any combination of identity
\* fields; the second feed's host is down.
InitIds ==
    /\ InitProgram
    /\ \E e \in IdEntries :
          upstream = [k \in FeedKeys |-> IF k = "bd" THEN Fixed(<<e>>) ELSE HostDown]
    /\ seenFile \in [FeedKeys -> {Absent, JsonList}]
    /\ seenFile["master"] = Absent

\* ----------------------------------------------------------------- actions
\* The wall clock advances between two calls of process_feed.
Tick ==
    /\ pc \in {"main", "exit"}
    /\ clock < MaxNow
    /\ clock' = clock + 1
    /\ UNCHANGED <<upstream, files, pc, idx, any_ok, ret, exitcode, locals>>

\* process_feed returns `ok` to main (line 210), which folds it into any_ok
\* (line 211) and moves to the next feed.
Return(ok) ==
    /\ ret' = [ret EXCEPT ![feed_key] = IF ok THEN "True" ELSE "False"]
    /\ any_ok' = (any_ok \/ ok)
    /\ idx' = idx + 1
    /\ pc' = "main"
    /\ NoLocals
    /\ UNCHANGED exitcode

\* An exception leaves process_feed; main does not catch it, the interpreter
\* prints the traceback and exits with status 1.
Raise ==
    /\ ret' = [ret EXCEPT ![feed_key] = "raised"]
    /\ pc' = "exit"
    /\ exitcode' = 1
    /\ NoLocals
    /\ UNCHANGED <<idx, any_ok>>

\* Lines 124-127: safe_fetch returns None, process_feed returns False.
FetchFailed_writes_empty_feed ==
    /\ pc = "main"
    /\ idx <= Len(FEEDS)
    /\ Return(FALSE)
    /\ outFile' = [outFile EXCEPT ![feed_key] = build_rss_xml(<<>>)]
    /\ UNCHANGED <<env, seenFile>>
FetchFailed ==
    /\ pc = "main"
    /\ idx <= Len(FEEDS)
    /\ Return(FALSE)
    /\ UNCHANGED <<env, files>>

\* Lines 124-138 with a loaded value dict() rejects: TypeError at line 138.
LoadRaises ==
    /\ pc = "main"
    /\ idx <= Len(FEEDS)
    /\ Served(upstream[feed_key]) # {}
    /\ DictRaises(load_last_seen(seenFile[feed_key]))
    /\ Raise
    /\ UNCHANGED <<env, files>>

\* Lines 124-187: fetch, parse, load the seen-state and classify all entries.
Classify ==
    /\ pc = "main"
    /\ idx <= Len(FEEDS)
    /\ ~DictRaises(load_last_seen(seenFile[feed_key]))
    /\ \E parsed \in Served(upstream[feed_key]) :
          LET seen == load_last_seen(seenFile[feed_key]).map
              r == Classified(parsed, seen, clock)
          IN  /\ entries' = parsed
              /\ now' = clock
              /\ last_seen' = seen
              /\ verdicts' = r.verdicts
              /\ new_items' = r.new_items
              /\ updated_last_seen' = r.updated
    /\ pc' = "classified"
    /\ UNCHANGED <<env, files, idx, any_ok, ret, exitcode>>

\* Lines 190-201: both branches build the document from new_items and write
\* it over the output file.
WrittenDoc_keeps_when_empty(old, items) ==
    IF items = <<>> THEN old ELSE build_rss_xml(items)
WrittenDoc(old, items) == build_rss_xml(items)

WriteOutput ==
    /\ pc = "classified"
    /\ outFile' = [outFile EXCEPT ![feed_key] = WrittenDoc(outFile[feed_key], new_items)]
    /\ pc' = "written"
    /\ UNCHANGED <<env, seenFile, idx, any_ok, ret, exitcode, locals>>

WriteOutputRaises_after_saving ==
    /\ pc = "classified"
    /\ outFile' = [outFile EXCEPT ![feed_key] = Partial]
    /\ seenFile' = [seenFile EXCEPT ![feed_key] = JsonMap(updated_last_seen)]
    /\ Raise
    /\ UNCHANGED env
\* open() or write() of the output file raises: the file is as before (open
\* failed) or holds part of the document.
WriteOutputRaises ==
    /\ pc = "classified"
    /\ \E doc \in {outFile[feed_key], Partial} :
          outFile' = [outFile EXCEPT ![feed_key] = doc]
    /\ Raise
    /\ UNCHANGED <<env, seenFile>>

\* Lines 204-205: save_last_seen, return True.
SaveLastSeen ==
    /\ pc = "written"
    /\ seenFile' = [seenFile EXCEPT ![feed_key] = JsonMap(updated_last_seen)]
    /\ Return(TRUE)
    /\ UNCHANGED <<env, outFile>>

\* save_last_seen raises: the file is as before (open failed) or truncated.
SaveLastSeenRaises ==
    /\ pc = "written"
    /\ \E f \in {seenFile[feed_key], Corrupt} :
          seenFile' = [seenFile EXCEPT ![feed_key] = f]
    /\ Raise
    /\ UNCHANGED <<env, outFile>>

\* Lines 212-216: after the loop, exit 1 when no feed was processed.
MainExit ==
    /\ pc = "main"
    /\ idx = Len(FEEDS) + 1
    /\ exitcode' = IF any_ok THEN 0 ELSE 1
    /\ pc' = "exit"
    /\ UNCHANGED <<env, files, idx, any_ok, ret, locals>>

\* The scheduler starts the job again (line 219).
StartRun ==
    /\ pc = "exit"
    /\ pc' = "main"
    /\ idx' = 1
    /\ any_ok' = FALSE
    /\ ret' = [k \in FeedKeys |-> "none"]
    /\ exitcode' = -1
    /\ UNCHANGED <<env, files, locals>>

Next ==
    \/ Tick
    \/ FetchFailed
    \/ LoadRaises
    \/ Classify
    \/ WriteOutput
    \/ WriteOutputRaises
    \/ SaveLastSeen
    \/ SaveLastSeenRaises
    \/ MainExit
    \/ StartRun

Spec == Init /\ [][Next]_vars
SpecFixed == InitFixed /\ [][Next]_vars
SpecIds == InitIds /\ [][Next]_vars

\* ================================================================= claims
Eid(i) == parse_entry_id(entries[i])
Edate(i) == parse_entry_date(entries[i])
\* The seen-state file of the feed in progress, as load_last_seen reads it.
Loaded == load_last_seen(seenFile[feed_key]).map
\* Entry i is the last entry of the list with its identity.
LastOfId(i) == \A j \in (i + 1)..Len(entries) : Eid(j) # Eid(i)
\* The step in which process_feed saves the seen-state and returns True.
Succeeds == pc = "written" /\ pc' = "main"

\* ------------------------------------------------------------------- C1
\* C1: every entry's verdict is "new" exactly when (a) its identity is not
\* in the seen-state loaded for the feed and it has no timestamp or one at
\* or after now - 24h, or (b) its identity is in the loaded seen-state, the
\* stored value parses, and the entry's timestamp is later than the stored
\* one and at or after now - 24h.
C1_CaseA(i) ==
    /\ Eid(i) \notin DOMAIN Loaded
    /\ (~Edate(i).some \/ Edate(i).t >= now - DELTA)
C1_CaseB(i) ==
    /\ Eid(i) \in DOMAIN Loaded
    /\ dateparser_parse(Loaded[Eid(i)]).ok
    /\ Edate(i).some
    /\ Edate(i).t > AsUTC(dateparser_parse(Loaded[Eid(i)]))
    /\ Edate(i).t >= now - DELTA
C1_DecisionTable ==
    pc = "classified" =>
        /\ Len(verdicts) = Len(entries)
        /\ \A i \in 1..Len(entries) : verdicts[i] <=> (C1_CaseA(i) \/ C1_CaseB(i))
\* A known identity with a newer timestamp is new, beside a known identity
\* whose stored value does not parse.
C1_Witness ==
    /\ pc = "classified"
    /\ \E i \in 1..Len(entries) : C1_CaseB(i) /\ verdicts[i]
    /\ \E m \in DOMAIN Loaded : ~dateparser_parse(Loaded[m]).ok

\* ------------------------------------------------------------------- C2
\* C2: a run of process_feed that follows a successful run on the same,
\* unchanged feed finds no new item and persists the mapping the earlier
\* run persisted.  (Under SpecFixed a feed never changes, and its
\* seen-state file is a mapping only once a run has saved it.)
C2_RerunIdempotent ==
    [][(Succeeds /\ seenFile[feed_key].kind = "map")
          => (new_items = <<>> /\ seenFile'[feed_key] = seenFile[feed_key])]_vars

\* ------------------------------------------------------------------- C3
\* C3: the process exits with status 0 exactly when at least one feed was
\* processed successfully in the run.
C3_ExitCode ==
    pc = "exit" => (exitcode = 0 <=> \E k \in FeedKeys : ret[k] = "True")

\* ------------------------------------------------------------------- C4
\* C4: a run attempts every configured feed whatever fails at a feed's
\* fetch, output write or seen-state save: when the process exits (and no
\* seen-state file holds a JSON value that is no mapping), process_feed
\* has been called for each feed.
C4_EveryFeedAttempted ==
    (pc = "exit" /\ \A k \in FeedKeys : seenFile[k].kind # "list")
        => \A k \in FeedKeys : ret[k] # "none"

\* ------------------------------------------------------------------- C5
\* C5: the step in which process_feed returns False (the fetch failed)
\* changes neither the output file nor the seen-state file of any feed.
C5_FetchFailureFrame ==
    [][(pc = "main" /\ idx <= Len(FEEDS) /\ ret'[feed_key] = "False")
          => (outFile' = outFile /\ seenFile' = seenFile)]_vars
\* A fetch failed for a feed whose files hold an earlier run's results.
C5_Witness ==
    /\ ret["bd"] = "False"
    /\ outFile["bd"].kind = "doc" /\ outFile["bd"].items # <<>>
    /\ seenFile["bd"].kind = "map" /\ DOMAIN seenFile["bd"].map # {}

\* ------------------------------------------------------------------- C6
\* C6: once process_feed has passed its write step the output file is a
\* document with one item per entry found new in this run, none when no
\* entry is new; a feed processed successfully has a document.
C6_OutputAlwaysWritten ==
    /\ pc = "written" =>
          /\ outFile[feed_key].kind = "doc"
          /\ Len(outFile[feed_key].items)
                = Cardinality({i \in 1..Len(verdicts) : verdicts[i]})
          /\ \A i \in 1..Len(outFile[feed_key].items) :
                outFile[feed_key].items[i].guid = new_items[i].id
    /\ \A k \in FeedKeys : ret[k] = "True" => outFile[k].kind = "doc"
\* A feed with entries, none of them new: the document written is empty.
C6_Witness ==
    /\ pc = "written"
    /\ entries # <<>>
    /\ new_items = <<>>
    /\ outFile[feed_key].items = <<>>
    /\ DOMAIN last_seen # {}

\* ------------------------------------------------------------------- C7
\* C7: for an identity whose persisted stamp reads as the time S, an entry
\* with timestamp T is new if T > S and T >= now - 24h and not new if
\* T <= S or T < now - 24h; and the stamp a successful run persists for an
\* entry with timestamp T reads back as T.
C7_Verdicts ==
    pc = "classified" =>
        \A i \in 1..Len(entries) :
            (/\ Eid(i) \in DOMAIN last_seen
             /\ dateparser_parse(last_seen[Eid(i)]).ok
             /\ Edate(i).some)
            => LET S == AsUTC(dateparser_parse(last_seen[Eid(i)]))
                   T == Edate(i).t
               IN  /\ (T > S /\ T >= now - DELTA) => verdicts[i]
                   /\ (T <= S \/ T < now - DELTA) => ~verdicts[i]
C7_RoundTrip ==
    Succeeds =>
        \A i \in 1..Len(entries) :
            (Edate(i).some /\ LastOfId(i))
            => /\ Eid(i) \in DOMAIN seenFile'[feed_key].map
               /\ dateparser_parse(seenFile'[feed_key].map[Eid(i)]).ok
               /\ AsUTC(dateparser_parse(seenFile'[feed_key].map[Eid(i)])) = Edate(i).t
C7_RepublishDetection == []C7_Verdicts /\ [][C7_RoundTrip]_vars
\* A known identity comes again with a later timestamp inside the window,
\* and is new.
C7_Witness ==
    /\ pc = "classified"
    /\ \E i \in 1..Len(entries) :
          /\ Eid(i) \in DOMAIN last_seen
          /\ last_seen[Eid(i)] = isoformat(1)
          /\ Edate(i) = Some(2)
          /\ now = 3
          /\ verdicts[i]

\* ------------------------------------------------------------------- C8
\* C8: for an identity that is not in the seen-state, an entry with a
\* timestamp is new exactly when the timestamp is at or after now - 24h;
\* the same inclusive cutoff decides for a known identity whose timestamp
\* is later than the stored one.
C8_Boundary ==
    pc = "classified" =>
        \A i \in 1..Len(entries) :
            Edate(i).some =>
                /\ Eid(i) \notin DOMAIN last_seen
                      => (verdicts[i] <=> ~(Edate(i).t < now - DELTA))
                /\ (/\ Eid(i) \in DOMAIN last_seen
                    /\ dateparser_parse(last_seen[Eid(i)]).ok
                    /\ Edate(i).t > AsUTC(dateparser_parse(last_seen[Eid(i)])))
                      => (verdicts[i] <=> ~(Edate(i).t < now - DELTA))
\* An unknown identity with a timestamp exactly at the cutoff is new.
C8_Witness ==
    /\ pc = "classified"
    /\ now > DELTA
    /\ \E i \in 1..Len(entries) :
          /\ Eid(i) \notin DOMAIN last_seen
          /\ Edate(i).some
          /\ Edate(i).t = now - DELTA
          /\ verdicts[i]

\* ------------------------------------------------------------------- C9
\* C9: for a seen-state file that is absent, unreadable or no valid JSON,
\* load_last_seen returns the empty mapping without raising, and the
\* entries are classified as with no prior state: new exactly when they
\* have no timestamp or one at or after now - 24h.
NoState(k) == seenFile[k].kind \in {"absent", "unreadable", "corrupt"}
C9_CorruptRecovery ==
    /\ \A k \in FeedKeys :
          NoState(k) => /\ load_last_seen(seenFile[k]) = JsonMap(EmptyMap)
                        /\ ~DictRaises(load_last_seen(seenFile[k]))
    /\ (pc = "classified" /\ NoState(feed_key)) =>
          /\ last_seen = EmptyMap
          /\ \A i \in 1..Len(entries) :
                verdicts[i] <=> (~Edate(i).some \/ Edate(i).t >= now - DELTA)
\* Entries are classified against a seen-state file that is no valid JSON.
C9_Witness ==
    /\ pc = "classified"
    /\ seenFile[feed_key].kind = "corrupt"
    /\ \E i \in 1..Len(entries) : verdicts[i]
    /\ \E i \in 1..Len(entries) : ~verdicts[i]

\* ------------------------------------------------------------------ C10
\* C10: the mapping a successful process_feed persists has every identity
\* of the parsed feed as a key, whatever its verdict; its value is the
\* ISO-8601 form of the timestamp of the (last) entry with that identity if
\* it has one, otherwise that entry's published text if not empty,
\* otherwise its updated text if not empty, otherwise the run's now.
C10_Expected(i) ==
    IF Edate(i).some THEN isoformat(Edate(i).t)
    ELSE IF entries[i].published # "" THEN entries[i].published
    ELSE IF entries[i].updated # "" THEN entries[i].updated
    ELSE isoformat(now)
C10_Persisted ==
    Succeeds =>
        /\ seenFile'[feed_key].kind = "map"
        /\ \A i \in 1..Len(entries) :
              /\ Eid(i) \in DOMAIN seenFile'[feed_key].map
              /\ LastOfId(i) => seenFile'[feed_key].map[Eid(i)] = C10_Expected(i)
C10_StampAlwaysPersisted == [][C10_Persisted]_vars
\* A run is about to persist the stamp of an entry it found not new, next
\* to an entry without any date.
C10_Witness ==
    /\ pc = "written"
    /\ \E i \in 1..Len(entries) :
          /\ ~verdicts[i]
          /\ LastOfId(i)
          /\ Eid(i) \in DOMAIN last_seen
          /\ updated_last_seen[Eid(i)] # last_seen[Eid(i)]
    /\ \E i \in 1..Len(entries) : ~Edate(i).some

\* ------------------------------------------------------------------ C11
\* C11: every value of a seen-state file that process_feed has saved is a
\* text the date parser reads.
C11_StoredStampsParse ==
    \A k \in FeedKeys :
        seenFile[k].kind = "map" =>
            \A m \in DOMAIN seenFile[k].map : dateparser_parse(seenFile[k].map[m]).ok

\* ------------------------------------------------------------------ C12
\* C12: the document written holds exactly one item per entry found new in
\* this run, in the order the entries have in the feed: its j-th item
\* carries the identity and the timestamp (now for an entry without one) of
\* the j-th new entry.
NewIndexes == {i \in 1..Len(entries) : verdicts[i]}
NthNew(j) == CHOOSE i \in NewIndexes : Cardinality({x \in NewIndexes : x <= i}) = j
C12_OutputInFeedOrder ==
    pc = "written" =>
        /\ Len(outFile[feed_key].items) = Cardinality(NewIndexes)
        /\ \A j \in 1..Len(outFile[feed_key].items) :
              /\ outFile[feed_key].items[j].guid = Eid(NthNew(j))
              /\ outFile[feed_key].items[j].pubDate
                    = isoformat(IF Edate(NthNew(j)).some THEN Edate(NthNew(j)).t ELSE now)
\* Two new entries, the later one first in the feed, are written in feed
\* order.
C12_Witness ==
    /\ pc = "written"
    /\ Len(entries) = 2
    /\ verdicts[1] /\ verdicts[2]
    /\ Edate(1).some /\ Edate(2).some
    /\ Edate(1).t > Edate(2).t
    /\ Len(outFile[feed_key].items) = 2

\* ------------------------------------------------------------------ C13
\* C13: the identity process_feed gives an entry (the key it stamps, the id
\* of the item it emits) is the first non-empty of the entry's id, guid and
\* link, otherwise title, "||" and the published text (the updated text
\* when published is empty); it is never the empty text.
C13_FirstNonEmpty(fields) ==
    LET set == {n \in 1..Len(fields) : fields[n] # ""}
    IN  IF set = {} THEN "" ELSE fields[CHOOSE n \in set : \A m \in set : n <= m]
C13_Identity(e) ==
    IF C13_FirstNonEmpty(<<e.id, e.guid, e.link>>) # ""
    THEN C13_FirstNonEmpty(<<e.id, e.guid, e.link>>)
    ELSE e.title \o "||" \o C13_FirstNonEmpty(<<e.published, e.updated>>)
C13_IdentityResolution ==
    pc \in {"classified", "written"} =>
        /\ \A i \in 1..Len(entries) :
              /\ C13_Identity(entries[i]) # ""
              /\ C13_Identity(entries[i]) \in DOMAIN updated_last_seen
              /\ verdicts[i] => \E j \in 1..Len(new_items) :
                                   new_items[j].id = C13_Identity(entries[i])
        /\ DOMAIN updated_last_seen
              = DOMAIN last_seen \cup {C13_Identity(entries[i]) : i \in 1..Len(entries)}
\* An entry with a guid and a link but no id is known by its guid; an entry
\* with none of the three by its title and date text.
C13_Witness ==
    /\ pc = "classified"
    /\ Len(entries) = 1
    /\ \/ /\ entries[1].id = "" /\ entries[1].guid # "" /\ entries[1].link # ""
          /\ DOMAIN updated_last_seen = {entries[1].guid}
       \/ /\ entries[1] = NoEntry
          /\ DOMAIN updated_last_seen = {"||"}

\* ------------------------------------------------------------------ C14
\* C14: process_feed goes through its stages in order (fetch, parse and
\* classify; write the output; save the seen-state), the output file is
\* written only after classification and the seen-state file only by the
\* last stage and only for the feed in progress; when the run stops before
\* the last stage the seen-state file is as it was, so that any later run
\* reading it finds new every entry this run found new whose timestamp is
\* still within 24 hours of that later run.
C14_Order ==
    /\ pc = "main" => pc' \in {"main", "classified", "exit"}
    /\ pc = "classified" => pc' \in {"written", "exit"}
    /\ pc = "written" => pc' \in {"main", "exit"}
    /\ pc' = "written" => pc = "classified"
    /\ pc' = "classified" =>
          /\ pc = "main"
          /\ \A i \in 1..Len(entries') :
                verdicts'[i] = IsNew(entries'[i], Loaded, now')
C14_Frame ==
    /\ seenFile' # seenFile =>
          /\ pc = "written"
          /\ \A k \in FeedKeys \ {feed_key} : seenFile'[k] = seenFile[k]
    /\ outFile' # outFile =>
          /\ pc = "classified"
          /\ \A k \in FeedKeys \ {feed_key} : outFile'[k] = outFile[k]
C14_Interrupted == pc = "classified" /\ pc' = "exit"
C14_AtLeastOnce ==
    C14_Interrupted =>
        \A i \in 1..Len(entries) : \A later \in now..MaxNow :
            (verdicts[i] /\ (Edate(i).some => Edate(i).t >= cutoff(later)))
                => IsNew(entries[i], load_last_seen(seenFile'[feed_key]).map, later)
C14_PipelineCrashSafety == [][C14_Order /\ C14_Frame /\ C14_AtLeastOnce]_vars
\* A run classifies with an entry found new while the output file is the
\* partial document of an interrupted write and the seen-state file has
\* never been written.
C14_Witness ==
    /\ pc = "classified"
    /\ outFile[feed_key] = Partial
    /\ seenFile[feed_key] = Absent
    /\ now >= DELTA
    /\ \E i \in 1..Len(entries) : verdicts[i] /\ Edate(i).some

\* ------------------------------------------------------------------ C15
\* C15: when process_feed saves the seen-state, every identity of the
\* mapping it loaded that no entry of the feed carries is in the saved
\* mapping with the stamp it had; with no entries at all the saved mapping
\* is the loaded one and the document written has no item.
C15_Observed == {Eid(i) : i \in 1..Len(entries)}
C15_Preserved ==
    Succeeds =>
        /\ seenFile'[feed_key].kind = "map"
        /\ \A id \in DOMAIN Loaded \ C15_Observed :
              /\ id \in DOMAIN seenFile'[feed_key].map
              /\ seenFile'[feed_key].map[id] = Loaded[id]
        /\ entries = <<>> =>
              /\ seenFile'[feed_key].map = Loaded
              /\ outFile'[feed_key] = [kind |-> "doc", items |-> <<>>]
C15_UnobservedPreserved == [][C15_Preserved]_vars
\* A run about to save whose feed has entries, none of them with an
\* identity the loaded mapping holds.
C15_Witness ==
    /\ pc = "written"
    /\ entries # <<>>
    /\ DOMAIN Loaded \ C15_Observed # {}

\* ------------------------------------------------------------------ C16
\* C16: from one successful run of a feed to the next, the stamp saved for
\* an identity never moves backwards in time: whenever process_feed saves
\* the seen-state, each identity whose loaded stamp and saved stamp both
\* read as instants is saved with an instant at or after the loaded one.
C16_Instant(text) == AsUTC(dateparser_parse(text))
C16_Monotone ==
    Succeeds =>
        \A id \in DOMAIN Loaded \cap DOMAIN seenFile'[feed_key].map :
            (/\ dateparser_parse(Loaded[id]).ok
             /\ dateparser_parse(seenFile'[feed_key].map[id]).ok)
                => C16_Instant(seenFile'[feed_key].map[id]) >= C16_Instant(Loaded[id])
C16_StampNeverMovesBack == [][C16_Monotone]_vars

\* ------------------------------------------------------------------ C17
\* C17: the verdict of each entry of a run is the verdict the entry would
\* get as the only entry of the feed, against the seen-state file as it was
\* when the run began and the run's `now`; the stamp held for an identity
\* after the loop is the one the last entry with that identity would get
\* alone.
C17_Alone(i) == Classified(<<entries[i]>>, Loaded, now)
C17_SnapshotClassification ==
    pc = "classified" =>
        \A i \in 1..Len(entries) :
            /\ verdicts[i] = C17_Alone(i).verdicts[1]
            /\ LastOfId(i) => updated_last_seen[Eid(i)] = C17_Alone(i).updated[Eid(i)]
\* Two entries with one identity the loaded mapping does not hold, the
\* later in the feed the older: both are found new.
C17_Witness ==
    /\ pc = "classified"
    /\ Len(entries) = 2
    /\ Eid(1) = Eid(2)
    /\ Eid(1) \notin DOMAIN Loaded
    /\ Edate(1).some /\ Edate(2).some /\ Edate(1).t > Edate(2).t
    /\ verdicts[1] /\ verdicts[2]
    /\ updated_last_seen[Eid(1)] = isoformat(Edate(2).t)

\* ------------------------------------------------------------------ C18
\* C18: whatever the seen-state file holds, process_feed does not raise
\* because of what load_last_seen returned: a call of process_feed (main
\* with a feed still to process) never leads straight to the interpreter's
\* exit.
C18_CallRaises == pc = "main" /\ idx <= Len(FEEDS) /\ pc' = "exit"
C18_LoadedAlwaysMapping == [][~C18_CallRaises]_vars

====
